---- MODULE Spec2Model ----
(***************************************************************************)
(* Model of monitor-sepolia.js: the start-up configuration check, the      *)
(* history phase (printHistory with fetchNormalTxs and fetchInternalTxs),  *)
(* and the live phase (liveMonitor's block callback running handleBlock),  *)
(* together with the environment the script talks to: the chain, the       *)
(* Etherscan API, the HTTP node and the websocket subscription.            *)
(***************************************************************************)
EXTENDS Integers, Sequences, FiniteSets, TLC

\* ------------------------------------------------------------------ bounds
\* Blocks the chain may grow to during a run.
MaxBlock == 2
\* Invocations of the block callback during a run.
MaxCalls == 2

\* ------------------------------------------------------- program constants
\* fetchNormalTxs / fetchInternalTxs default parameters.
DefaultStartBlock == 0
DefaultEndBlock == 99999999
DefaultOffset == 10000
\* handleBlock's offset for the single-block internal query.
LiveOffset == 1000
\* printHistory shows normal.slice(-5) and internal.slice(-5).
ShowLast == 5

\* --------------------------------------------------------------- addresses
\* An address is a sequence of characters; <<>> is '' (what `x || ''` makes
\* of a missing value).
NoAddr == <<>>
aLow == <<"a", "b">>
aMix == <<"A", "b">>
aUp == <<"A", "B">>
other == <<"c", "d">>
otherMix == <<"C", "d">>

\* String.prototype.toLowerCase on one character.
ToLowerChar(c) ==
  CASE c = "A" -> "a"
    [] c = "B" -> "b"
    [] c = "C" -> "c"
    [] c = "D" -> "d"
    [] OTHER -> c

\* String.prototype.toLowerCase.
toLowerCase(s) == [i \in 1..Len(s) |-> ToLowerChar(s[i])]

\* The letter a character stands for, whatever its case (ground truth of
\* "the same address", independent of toLowerCase).
LetterOf(c) ==
  CASE c \in {"a", "A"} -> 1
    [] c \in {"b", "B"} -> 2
    [] c \in {"c", "C"} -> 3
    [] c \in {"d", "D"} -> 4
    [] OTHER -> 0

\* Two addresses are the same account: equal up to letter case.
SameAccount(x, y) ==
  /\ Len(x) = Len(y)
  /\ \A i \in 1..Len(x) : LetterOf(x[i]) = LetterOf(y[i])

\* ------------------------------------------------------------------- chain
\* A transaction of a block body: its sender and (possibly missing) recipient.
Tx(f, t) == [from |-> f, to |-> t]

\* The blocks the chain may produce: a body (transactions in order) and the
\* number of internal transfers touching the watched account in the block.
BlockKinds ==
  { [txs |-> <<Tx(aMix, other), Tx(other, otherMix), Tx(otherMix, aUp),
               Tx(aLow, NoAddr)>>, ints |-> 1],
    [txs |-> <<Tx(other, NoAddr)>>, ints |-> 0] }

VARIABLES
  env,        \* process.env: WS_RPC_SEPOLIA, HTTP_RPC_SEPOLIA, ADDRESS, ETHERSCAN_API_KEY
  pc,         \* position of the top-level script / async main
  exitCode,   \* 0 while running, the process.exit status once exited
  chain,      \* the blocks produced so far (block n is chain[n])
  wsOpen,     \* the websocket connection is open
  subscribed, \* ws.on('block', ...) has been registered
  closeSeen,  \* the 'close' handler ran (its message was printed)
  delivered,  \* highest block number the subscription has announced
  calls,      \* one record per invocation of the block callback
  emitted,    \* events printed, in order
  reported,   \* errors printed with console.error
  hist        \* printHistory's two fetches: the reply received and the outcome

vars == <<env, pc, exitCode, chain, wsOpen, subscribed, closeSeen, delivered,
          calls, emitted, reported, hist>>

\* const WATCH = (process.env.ADDRESS || '').toLowerCase();
WATCH == toLowerCase(env.ADDRESS)

\* ------------------------------------------------------------- Etherscan API
Min(a, b) == IF a < b THEN a ELSE b

\* The transactions of block n whose sender or recipient is account addr
\* (Etherscan's index of the chain), as API records, in block order.
RECURSIVE TxRecords(_, _, _, _)
TxRecords(txs, n, addr, i) ==
  IF i > Len(txs) THEN <<>>
  ELSE (IF SameAccount(txs[i].from, addr) \/ SameAccount(txs[i].to, addr)
        THEN <<[bn |-> n, id |-> i]>> ELSE <<>>)
       \o TxRecords(txs, n, addr, i + 1)

\* action=txlist, sort=asc, over the blocks lo..hi that exist.
RECURSIVE NormalList(_, _, _, _)
NormalList(ch, addr, lo, hi) ==
  IF lo > hi \/ lo > Len(ch) THEN <<>>
  ELSE (IF lo >= 1 THEN TxRecords(ch[lo].txs, lo, addr, 1) ELSE <<>>)
       \o NormalList(ch, addr, lo + 1, hi)

\* action=txlistinternal, sort=asc, over the blocks lo..hi that exist.
RECURSIVE InternalList(_, _, _)
InternalList(ch, lo, hi) ==
  IF lo > hi \/ lo > Len(ch) THEN <<>>
  ELSE (IF lo >= 1 THEN [k \in 1..ch[lo].ints |-> [bn |-> lo, id |-> k]] ELSE <<>>)
       \o InternalList(ch, lo + 1, hi)

\* page=1 with `offset` records per page: the first `offset` records.
Page1(list, offset) == SubSeq(list, 1, Min(Len(list), offset))

\* The JSON value of data.result.
Arr(list) == [tag |-> "array", v |-> list]
JsNull == [tag |-> "null", v |-> <<>>]
JsString == [tag |-> "string", v |-> <<>>]

\* What axios.get may give back.  http = "fail": the call throws (timeout,
\* non-2xx).  Otherwise the body: status "1" with the records; status "0"
\* with "No transactions found" when there are none; status "0" / "NOTOK"
\* with a string result when the request is refused (rate limit).
NoReply == [http |-> "none", status |-> "", message |-> "", result |-> JsNull]
ApiReplies(list) ==
  (IF list # <<>>
   THEN { [http |-> "ok", status |-> "1", message |-> "OK", result |-> Arr(list)] }
   ELSE { [http |-> "ok", status |-> "0", message |-> "No transactions found",
           result |-> r] : r \in {Arr(<<>>), JsNull} })
  \cup { [http |-> "ok", status |-> "0", message |-> "NOTOK", result |-> JsString],
         [http |-> "fail", status |-> "", message |-> "", result |-> JsNull] }

\* ------------------------------------------------------------------ fetchers
\* The result of a call: it threw, or it returned a list.
Threw == [threw |-> TRUE, list |-> <<>>]
Returned(list) == [threw |-> FALSE, list |-> list]
NoOutcome == [threw |-> FALSE, list |-> <<>>]

\* data.result || []
ResultOrEmpty(result) == IF result.tag = "null" THEN <<>> ELSE result.v

\* fetchNormalTxs without the "No transactions found" exemption: every reply
\* whose status is not "1" throws.
fetchNormalTxsStrict(reply) ==
  IF reply.http = "fail" THEN Threw
  ELSE IF reply.status # "1" THEN Threw
  ELSE Returned(ResultOrEmpty(reply.result))

\* fetchNormalTxs, from the reply of its axios.get on.
fetchNormalTxs(reply) ==
  IF reply.http = "fail" THEN Threw
  ELSE IF reply.status # "1" /\ reply.message # "No transactions found" THEN Threw
  ELSE Returned(ResultOrEmpty(reply.result))

\* fetchInternalTxs, from the reply of its axios.get on.
fetchInternalTxs(reply) ==
  IF reply.http = "fail" THEN Threw
  ELSE IF reply.status # "1" /\ reply.message # "No transactions found" THEN Threw
  ELSE Returned(ResultOrEmpty(reply.result))

\* list.slice(0, n): the first records instead of the last.
SliceFirst(list, n) == SubSeq(list, 1, Min(Len(list), n))

\* list.slice(-n)
SliceLast(list, n) ==
  IF Len(list) <= n THEN list ELSE SubSeq(list, Len(list) - n + 1, Len(list))

\* An event printed to the console.
Event(src, kind, rec) == [src |-> src, kind |-> kind, bn |-> rec.bn, id |-> rec.id]
Events(src, kind, list) == [i \in 1..Len(list) |-> Event(src, kind, list[i])]

\* A console.error line: which message, and in which callback invocation
\* (0: the top-level script).
Report(kind, call) == [kind |-> kind, call |-> call]

\* ---------------------------------------------------------------- start-up
NoFetch == [reply |-> NoReply, out |-> NoOutcome]

EnvValues == {"", "set"}
AddressValues == {NoAddr, aMix}

Init ==
  /\ env \in [WS_RPC_SEPOLIA : EnvValues, HTTP_RPC_SEPOLIA : EnvValues,
              ADDRESS : AddressValues, ETHERSCAN_API_KEY : EnvValues]
  /\ pc = "boot"
  /\ exitCode = 0
  /\ chain = <<>>
  /\ wsOpen = FALSE
  /\ subscribed = FALSE
  /\ closeSeen = FALSE
  /\ delivered = 0
  /\ calls = <<>>
  /\ emitted = <<>>
  /\ reported = {}
  /\ hist = [normal |-> NoFetch, internal |-> NoFetch]

\* The configuration check without the API key.
ConfigMissingNoKey ==
  \/ env.WS_RPC_SEPOLIA = ""
  \/ env.HTTP_RPC_SEPOLIA = ""
  \/ WATCH = NoAddr

\* if (!WS_URL || !HTTP_URL || !WATCH || !ETHERSCAN_KEY)
ConfigMissing ==
  \/ env.WS_RPC_SEPOLIA = ""
  \/ env.HTTP_RPC_SEPOLIA = ""
  \/ WATCH = NoAddr
  \/ env.ETHERSCAN_API_KEY = ""

\* The top-level script with main not awaiting printHistory: liveMonitor
\* registers the block callback while the txlist query is still in flight.
StartLiveFirst ==
  /\ pc = "boot"
  /\ IF ConfigMissing
     THEN /\ reported' = reported \cup {Report("Missing .env", 0)}
          /\ exitCode' = 1
          /\ pc' = "exited"
          /\ UNCHANGED <<wsOpen, subscribed>>
     ELSE /\ pc' = "fetchNormal"
          /\ wsOpen' = TRUE
          /\ subscribed' = TRUE
          /\ UNCHANGED <<reported, exitCode>>
  /\ UNCHANGED <<env, chain, closeSeen, delivered, calls, emitted, hist>>

\* The top-level script up to the first await: the configuration check, the
\* providers, and main's call of printHistory, which issues the txlist query.
Start ==
  /\ pc = "boot"
  /\ IF ConfigMissing
     THEN /\ reported' = reported \cup {Report("Missing .env", 0)}
          /\ exitCode' = 1
          /\ pc' = "exited"
          /\ UNCHANGED wsOpen
     ELSE /\ pc' = "fetchNormal"
          /\ wsOpen' = TRUE
          /\ UNCHANGED <<reported, exitCode>>
  /\ UNCHANGED <<env, chain, subscribed, closeSeen, delivered, calls, emitted, hist>>

\* main's catch: console.error('Fatal:', e); process.exit(1)
Fatal ==
  /\ reported' = reported \cup {Report("Fatal", 0)}
  /\ exitCode' = 1
  /\ pc' = "exited"

\* ------------------------------------------------------------ printHistory
\* The txlist reply arrives: printHistory prints the last normal records and
\* issues the txlistinternal query; a throw reaches main's catch.
NormalHistoryReply ==
  /\ pc = "fetchNormal"
  /\ \E reply \in ApiReplies(Page1(NormalList(chain, WATCH, DefaultStartBlock,
                                              DefaultEndBlock), DefaultOffset)) :
       LET out == fetchNormalTxs(reply) IN
       /\ hist' = [hist EXCEPT !.normal = [reply |-> reply, out |-> out]]
       /\ IF out.threw
          THEN Fatal /\ UNCHANGED emitted
          ELSE /\ emitted' = emitted \o Events("history", "normal",
                                               SliceLast(out.list, ShowLast))
               /\ pc' = "fetchInternal"
               /\ UNCHANGED <<reported, exitCode>>
  /\ UNCHANGED <<env, chain, wsOpen, subscribed, closeSeen, delivered, calls>>

\* liveMonitor: registers the block callback and the close handler (which
\* hears a close only if the socket is still open when it is registered).
liveMonitor ==
  /\ subscribed' = TRUE
  /\ delivered' = Len(chain)
  /\ pc' = "live"

\* The txlistinternal reply arrives: printHistory prints the last internal
\* records and returns, and main goes on to liveMonitor; a throw reaches
\* main's catch.
InternalHistoryReply ==
  /\ pc = "fetchInternal"
  /\ \E reply \in ApiReplies(Page1(InternalList(chain, DefaultStartBlock,
                                                DefaultEndBlock), DefaultOffset)) :
       LET out == fetchInternalTxs(reply) IN
       /\ hist' = [hist EXCEPT !.internal = [reply |-> reply, out |-> out]]
       /\ IF out.threw
          THEN Fatal /\ UNCHANGED <<emitted, subscribed, delivered>>
          ELSE /\ emitted' = emitted \o Events("history", "internal",
                                               SliceLast(out.list, ShowLast))
               /\ liveMonitor
               /\ UNCHANGED <<reported, exitCode>>
  /\ UNCHANGED <<env, chain, wsOpen, closeSeen, calls>>

\* -------------------------------------------------------------- environment
\* The chain grows by one block.
ProduceBlock ==
  /\ pc # "exited"
  /\ Len(chain) < MaxBlock
  /\ \E b \in BlockKinds : chain' = Append(chain, b)
  /\ UNCHANGED <<env, pc, exitCode, wsOpen, subscribed, closeSeen, delivered,
                 calls, emitted, reported, hist>>

\* The websocket connection closes; the close handler that liveMonitor
\* registered prints its message and does nothing else.
CloseSocket ==
  /\ pc = "live"
  /\ wsOpen
  /\ wsOpen' = FALSE
  /\ closeSeen' = TRUE
  /\ UNCHANGED <<env, pc, exitCode, chain, subscribed, delivered, calls,
                 emitted, reported, hist>>

\* --------------------------------------------------------------- live phase
Indices(s) == 1..Len(s)

\* An invocation whose step 1 (the normal transactions) has run.
Processed(c) == c.pc \in {"fetchInternal", "done"}

\* Block numbers whose step 1 has run so far.
ProcessedBlocks == {calls[k].bn : k \in {j \in Indices(calls) : Processed(calls[j])}}

\* Step 2 calling fetchInternalTxs(WATCH) with the default range.
InternalQueryFullRange(bn) ==
  [address |-> WATCH, startBlock |-> DefaultStartBlock,
   endBlock |-> DefaultEndBlock, offset |-> LiveOffset]

\* fetchInternalTxs(WATCH, blockNumber, blockNumber, 1000): the query of step 2.
InternalQuery(bn) ==
  [address |-> WATCH, startBlock |-> bn, endBlock |-> bn, offset |-> LiveOffset]

\* handleBlock issuing the internal query together with http.getBlock instead
\* of after it.
NewCallEagerQuery(bn) ==
  [bn |-> bn, pc |-> "getBlock", got |-> "pending", out |-> <<>>,
   stale |-> \E m \in ProcessedBlocks : m >= bn,
   int |-> "pending", q |-> <<InternalQuery(bn)>>, ret |-> 0]

\* The block callback is invoked with block number bn: handleBlock(bn) starts
\* and suspends on http.getBlock.  `stale` notes whether a block at or above
\* bn had already been processed when bn was delivered; `q` lists the internal
\* queries the invocation has issued and `ret` counts the records returned.
NewCall(bn) ==
  [bn |-> bn, pc |-> "getBlock", got |-> "pending", out |-> <<>>,
   stale |-> \E m \in ProcessedBlocks : m >= bn,
   int |-> "pending", q |-> <<>>, ret |-> 0]

\* The subscription announces the next block of the chain.
DeliverBlock ==
  /\ pc = "live" /\ subscribed /\ wsOpen
  /\ Len(calls) < MaxCalls
  /\ delivered < Len(chain)
  /\ delivered' = delivered + 1
  /\ calls' = Append(calls, NewCall(delivered + 1))
  /\ UNCHANGED <<env, pc, exitCode, chain, wsOpen, subscribed, closeSeen,
                 emitted, reported, hist>>

\* The subscription announces again a block number it announced before (the
\* node re-sends heads after a reorganisation or a resubscription).
RedeliverBlock ==
  /\ pc = "live" /\ subscribed /\ wsOpen
  /\ Len(calls) < MaxCalls
  /\ \E i \in Indices(calls) : calls' = Append(calls, NewCall(calls[i].bn))
  /\ UNCHANGED <<env, pc, exitCode, chain, wsOpen, subscribed, closeSeen,
                 delivered, emitted, reported, hist>>

\* The filter without toLowerCase on the transaction's fields.
MatchesCaseSensitive(tx) == tx.from = WATCH \/ tx.to = WATCH

\* from === WATCH || to === WATCH, on the lower-cased fields.
Matches(tx) ==
  LET from == toLowerCase(tx.from)
      to == toLowerCase(tx.to)
  IN from = WATCH \/ to = WATCH

\* The positions of the transactions of a body that handleBlock prints.
RECURSIVE MatchingIds(_, _)
MatchingIds(txs, i) ==
  IF i > Len(txs) THEN <<>>
  ELSE (IF Matches(txs[i]) THEN <<i>> ELSE <<>>) \o MatchingIds(txs, i + 1)

\* What http.getBlock(bn, true) may give: the block, null (the node does not
\* have it yet), or a throw.
GetBlockResults == {"block", "null", "fail"}

\* The block callback's catch with nothing logged.
OnBlockErrorSilent(i) ==
  /\ calls' = [calls EXCEPT ![i].pc = "failed", ![i].got = "fail"]
  /\ reported' = reported

\* What the block callback does when handleBlock throws: it logs and returns.
OnBlockError(i) ==
  /\ calls' = [calls EXCEPT ![i].pc = "failed", ![i].got = "fail"]
  /\ reported' = reported \cup {Report("Block error", i)}

\* http.getBlock returns in invocation i: step 1 prints the matching normal
\* transactions, then step 2 issues the single-block txlistinternal query.
GetBlockReply(i) ==
  /\ pc = "live"
  /\ i \in Indices(calls)
  /\ calls[i].pc = "getBlock"
  /\ \E got \in GetBlockResults :
       IF got = "fail"
       THEN OnBlockError(i) /\ UNCHANGED emitted
       ELSE LET ids == IF got = "block"
                       THEN MatchingIds(chain[calls[i].bn].txs, 1) ELSE <<>>
                recs == [k \in Indices(ids) |-> [bn |-> calls[i].bn, id |-> ids[k]]]
            IN /\ emitted' = emitted \o Events("live", "normal", recs)
               /\ calls' = [calls EXCEPT
                             ![i].pc = "fetchInternal",
                             ![i].got = got, ![i].out = ids,
                             ![i].q = Append(calls[i].q, InternalQuery(calls[i].bn))]
               /\ UNCHANGED reported
  /\ UNCHANGED <<env, pc, exitCode, chain, wsOpen, subscribed, closeSeen,
                 delivered, hist>>

\* Step 2 without its try/catch: the throw leaves handleBlock and reaches the
\* block callback's catch.
OnInternalErrorUncaught(i) ==
  /\ calls' = [calls EXCEPT ![i].pc = "failed", ![i].int = "error"]
  /\ reported' = reported \cup {Report("Block error", i)}

\* handleBlock's catch around step 2: console.error('Internal fetch error').
OnInternalError(i) ==
  /\ calls' = [calls EXCEPT ![i].pc = "done", ![i].int = "error"]
  /\ reported' = reported \cup {Report("Internal fetch error", i)}

\* The single-block txlistinternal reply arrives in invocation i: the records
\* are printed, or the error is logged; handleBlock returns.
InternalReply(i) ==
  /\ pc = "live"
  /\ i \in Indices(calls)
  /\ calls[i].pc = "fetchInternal"
  /\ \E reply \in
       LET query == calls[i].q[Len(calls[i].q)]
       IN ApiReplies(Page1(InternalList(chain, query.startBlock, query.endBlock),
                           query.offset)) :
       LET out == fetchInternalTxs(reply) IN
       IF out.threw
       THEN OnInternalError(i) /\ UNCHANGED emitted
       ELSE /\ emitted' = emitted \o Events("live", "internal", out.list)
            /\ calls' = [calls EXCEPT ![i].pc = "done", ![i].int = "ok",
                                      ![i].ret = Len(out.list)]
            /\ UNCHANGED reported
  /\ UNCHANGED <<env, pc, exitCode, chain, wsOpen, subscribed, closeSeen,
                 delivered, hist>>

Next ==
  \/ Start
  \/ NormalHistoryReply
  \/ InternalHistoryReply
  \/ ProduceBlock
  \/ CloseSocket
  \/ DeliverBlock
  \/ RedeliverBlock
  \/ \E i \in 1..MaxCalls : GetBlockReply(i)
  \/ \E i \in 1..MaxCalls : InternalReply(i)

Spec == Init /\ [][Next]_vars

\* ------------------------------------------------------------------ claims
Range(s) == {s[k] : k \in Indices(s)}

\* How many times an event of this kind, block and id was printed.
Count(kind, n, id) ==
  Cardinality({k \in Indices(emitted) :
                 emitted[k].kind = kind /\ emitted[k].bn = n /\ emitted[k].id = id})

\* Ground truth: the transactions of block n that touch the configured address.
Touching(n) ==
  {k \in Indices(chain[n].txs) :
     \/ SameAccount(chain[n].txs[k].from, env.ADDRESS)
     \/ SameAccount(chain[n].txs[k].to, env.ADDRESS)}

\* The normal transactions of block n printed by the live phase.
LiveNormalIds(n) ==
  {e.id : e \in {x \in Range(emitted) :
                   x.src = "live" /\ x.kind = "normal" /\ x.bn = n}}

\* Every invocation of the block callback has returned.
AllSettled == \A i \in Indices(calls) : calls[i].pc \in {"done", "failed"}

\* Every invocation of the block callback has returned, none met an error, and
\* every one got its block.
AllClean ==
  \A i \in Indices(calls) :
    calls[i].pc = "done" /\ calls[i].got = "block" /\ calls[i].int = "ok"

\* C1: every event touching the watched address is printed exactly once by
\* history-then-live: never twice, and, once the subscription has announced
\* every block of the chain and every invocation has returned without error,
\* every normal and internal event of every block has been printed.
C1_ExactlyOnce ==
  /\ \A n \in Indices(chain) :
       /\ \A k \in Touching(n) : Count("normal", n, k) <= 1
       /\ \A k \in 1..chain[n].ints : Count("internal", n, k) <= 1
  /\ (pc = "live" /\ delivered = Len(chain) /\ AllClean) =>
       \A n \in Indices(chain) :
         /\ \A k \in Touching(n) : Count("normal", n, k) = 1
         /\ \A k \in 1..chain[n].ints : Count("internal", n, k) = 1

C3_FilterExact ==
  \A n \in Indices(chain) :
    IF \E i \in Indices(calls) : calls[i].bn = n /\ calls[i].got = "block"
    THEN /\ LiveNormalIds(n) = Touching(n)
         /\ \A k \in Indices(chain[n].txs) :
              chain[n].txs[k].to = NoAddr =>
                (k \in LiveNormalIds(n) <=>
                   SameAccount(chain[n].txs[k].from, env.ADDRESS))
    ELSE LiveNormalIds(n) = {}

\* C3 witness: a fetched body holding matching and unrelated transactions,
\* among them a contract creation by the watched address.
C3_Witness ==
  \E i \in Indices(calls) :
    /\ calls[i].got = "block"
    /\ LiveNormalIds(calls[i].bn) # {}
    /\ LiveNormalIds(calls[i].bn) # Indices(chain[calls[i].bn].txs)
    /\ \E k \in LiveNormalIds(calls[i].bn) : chain[calls[i].bn].txs[k].to = NoAddr

NoneFound(reply) ==
  reply.http = "ok" /\ reply.status = "0" /\ reply.message = "No transactions found"

\* C4: a "No transactions found" reply makes either fetcher return an empty
\* list without throwing; any other reply whose status is not "1" makes it
\* throw; and when both history queries are answered "No transactions found"
\* the script is in the live phase with the subscription registered.
C4_NoTransactionsFound ==
  /\ \A f \in {hist.normal, hist.internal} :
       /\ NoneFound(f.reply) => ~f.out.threw /\ f.out.list = <<>>
       /\ (f.reply.http = "ok" /\ f.reply.status # "1" /\ ~NoneFound(f.reply))
            => f.out.threw
  /\ (NoneFound(hist.normal.reply) /\ NoneFound(hist.internal.reply)) =>
       /\ pc = "live" /\ subscribed /\ exitCode = 0
       /\ Report("Fatal", 0) \notin reported

\* C4 witness: both history queries answered "No transactions found".
C4_Witness ==
  /\ NoneFound(hist.normal.reply)
  /\ NoneFound(hist.internal.reply)
  /\ pc = "live"

RateLimited(reply) ==
  reply.http = "ok" /\ reply.status = "0" /\ reply.message = "NOTOK"

\* C5: a rate-limit reply to a history query is retried and not surfaced: the
\* process has not exited and no fatal error was reported.
C5_RateLimitRetried ==
  \A f \in {hist.normal, hist.internal} :
    RateLimited(f.reply) => exitCode = 0 /\ Report("Fatal", 0) \notin reported

\* C6: only a configuration error terminates the process; a failed history
\* fetch is reported and the live phase is still entered.
C6_OnlyConfigTerminates ==
  /\ exitCode # 0 => ConfigMissing
  /\ (hist.normal.out.threw \/ hist.internal.out.threw) => pc # "exited"

\* C7: an invocation for a block number at or below one already processed is
\* skipped: its step 1 never runs and it prints no normal event.
C7_RedeliverySkipped ==
  \A i \in Indices(calls) :
    calls[i].stale => ~Processed(calls[i]) /\ calls[i].out = <<>>

\* C8: no delivered block is left unprocessed while a later block is
\* processed: once every invocation has returned, every delivered block number
\* below a processed one has been processed too.
C8_NoGap ==
  AllSettled =>
    \A i, j \in Indices(calls) :
      (Processed(calls[j]) /\ calls[i].bn < calls[j].bn)
        => calls[i].bn \in ProcessedBlocks

\* C9: at most one invocation of handleBlock is under way (suspended on a
\* network call) at any time.
C9_OneAtATime ==
  Cardinality({i \in Indices(calls) :
                 calls[i].pc \in {"getBlock", "fetchInternal"}}) <= 1

\* What the script and its subscription can still do: announce a block or
\* continue an invocation.
EngineStep ==
  \/ DeliverBlock
  \/ RedeliverBlock
  \/ \E i \in 1..MaxCalls : GetBlockReply(i)
  \/ \E i \in 1..MaxCalls : InternalReply(i)

\* C10: after the connection closed, the script does not stay idle while the
\* chain holds a block the subscription never announced: some step of the
\* engine (a reconnection delivering the block) is possible.
C10_ReconnectsAfterClose ==
  (closeSeen /\ delivered < Len(chain)) => ENABLED EngineStep

\* A history fetch that has been answered.
Answered(f) == f.reply.http # "none"

\* C11: the phases run one way.  While the history queries are in flight no
\* block callback is registered, no invocation exists and no live event is
\* printed; the internal query is issued only after the normal one returned;
\* the callback is registered only after both returned; every history event is
\* printed before every live event; and once the live phase has begun the
\* script stays in it and the history fetches are never touched again.
C11_Backfilling ==
  /\ pc \in {"boot", "fetchNormal", "fetchInternal"} =>
       /\ ~subscribed /\ calls = <<>>
       /\ \A e \in Range(emitted) : e.src = "history"
  /\ pc \in {"boot", "fetchNormal"} =>
       ~Answered(hist.normal) /\ ~Answered(hist.internal)
  /\ pc = "fetchInternal" =>
       Answered(hist.normal) /\ ~hist.normal.out.threw /\ ~Answered(hist.internal)
  /\ subscribed =>
       /\ pc = "live"
       /\ Answered(hist.normal) /\ ~hist.normal.out.threw
       /\ Answered(hist.internal) /\ ~hist.internal.out.threw
  /\ \A i, j \in Indices(emitted) :
       (emitted[i].src = "live" /\ emitted[j].src = "history") => j < i

C11_PhasesOneWay ==
  /\ []C11_Backfilling
  /\ [][pc = "live" => (pc' = "live" /\ hist' = hist /\ subscribed')]_vars

\* C11 witness: the live phase handling a block after a history that printed
\* events.
C11_Witness ==
  /\ pc = "live"
  /\ \E e \in Range(emitted) : e.src = "history"
  /\ \E e \in Range(emitted) : e.src = "live"

\* C12: events are printed in chronological order: block numbers never
\* decrease along the printed sequence.
C12_Chronological ==
  \A i, j \in Indices(emitted) : i < j => emitted[i].bn <= emitted[j].bn

\* ------------------------------------------------------------------ paging
\* A block with more internal transfers of the watched account than half a
\* page: two of them hold more records than one page of the history query.
HeavyBlock == [txs |-> <<>>, ints |-> DefaultOffset \div 2 + 1]

\* The chain grows by one such block.
ProduceHeavyBlock ==
  /\ pc # "exited"
  /\ Len(chain) < MaxBlock
  /\ chain' = Append(chain, HeavyBlock)
  /\ UNCHANGED <<env, pc, exitCode, wsOpen, subscribed, closeSeen, delivered,
                 calls, emitted, reported, hist>>

\* The history phase against a chain that may hold such blocks.
PagingNext ==
  \/ Start
  \/ NormalHistoryReply
  \/ InternalHistoryReply
  \/ ProduceBlock
  \/ ProduceHeavyBlock

PagingSpec == Init /\ [][PagingNext]_vars

\* C13: each history fetch returns every record the API holds for the address
\* and range at the time it answers, however many pages that takes.
C13_AllPages ==
  [][ /\ (pc = "fetchNormal" /\ pc' = "fetchInternal") =>
          hist'.normal.out.list =
            NormalList(chain, WATCH, DefaultStartBlock, DefaultEndBlock)
      /\ (pc = "fetchInternal" /\ pc' = "live") =>
          hist'.internal.out.list =
            InternalList(chain, DefaultStartBlock, DefaultEndBlock) ]_vars

\* The history events of one kind, in the order printed.
HistoryEvents(kind) ==
  SelectSeq(emitted, LAMBDA e : e.src = "history" /\ e.kind = kind)

\* The history events of one kind are the last min(5, length) records of the
\* fetched list, in the list's order; none before the fetch returned a list.
ShowsLastFive(f, kind) ==
  LET H == HistoryEvents(kind)
      L == f.out.list
      n == IF Len(L) < ShowLast THEN Len(L) ELSE ShowLast
  IN IF Answered(f) /\ ~f.out.threw
     THEN /\ Len(H) = n
          /\ \A k \in 1..n :
               /\ H[k].bn = L[Len(L) - n + k].bn
               /\ H[k].id = L[Len(L) - n + k].id
     ELSE H = <<>>

\* C14: the history phase prints, for the normal list and for the internal
\* list, exactly the last min(5, length) fetched records in the order fetched,
\* every normal record before every internal one.
C14_LastFiveOfEach ==
  /\ ShowsLastFive(hist.normal, "normal")
  /\ ShowsLastFive(hist.internal, "internal")
  /\ \A i, j \in Indices(emitted) :
       ( /\ emitted[i].src = "history" /\ emitted[i].kind = "normal"
         /\ emitted[j].src = "history" /\ emitted[j].kind = "internal" ) => i < j

\* C14 witness: a normal history longer than five records and a non-empty
\* internal history, both printed.
C14_Witness ==
  /\ pc = "live"
  /\ Len(hist.normal.out.list) > ShowLast
  /\ hist.internal.out.list # <<>>

\* How often the live phase printed record id of block n as a `kind` event.
LiveCount(kind, n, id) ==
  Cardinality({k \in Indices(emitted) :
                 /\ emitted[k].src = "live" /\ emitted[k].kind = kind
                 /\ emitted[k].bn = n /\ emitted[k].id = id})

\* The invocations of the block callback for block n.
CallsFor(n) == {i \in Indices(calls) : calls[i].bn = n}

\* The live events of block n that were printed.
LiveEvents(n) == {e \in Range(emitted) : e.src = "live" /\ e.bn = n}

\* C15: when http.getBlock throws in an invocation, the error is reported as a
\* block error, the invocation prints no normal event and issues no internal
\* query, and the process keeps running with the callback registered; a block
\* whose every invocation failed or is still waiting has no live event; and no
\* error of the live phase terminates the process.
C15_BlockErrorContained ==
  /\ \A i \in Indices(calls) :
       calls[i].got = "fail" =>
         /\ calls[i].pc = "failed"
         /\ Report("Block error", i) \in reported
         /\ calls[i].out = <<>>
         /\ calls[i].q = <<>> /\ calls[i].int = "pending"
         /\ subscribed /\ pc = "live" /\ exitCode = 0
  /\ \A n \in Indices(chain) :
       (\A i \in CallsFor(n) : calls[i].got \in {"fail", "pending"})
         => LiveEvents(n) = {}
  /\ (\E r \in reported : r.kind \in {"Block error", "Internal fetch error"})
       => pc = "live" /\ exitCode = 0

\* C15 witness: an invocation whose getBlock threw, and a later one handled.
C15_Witness ==
  \E i, j \in Indices(calls) :
    /\ i < j
    /\ calls[i].got = "fail"
    /\ calls[j].pc = "done" /\ calls[j].got = "block"

\* C16: every invocation whose body fetch returned (a block or null) has issued
\* exactly one internal query, for the watched address and the range [n, n];
\* none was issued otherwise; and every record the query returned is printed
\* as an internal event of block n.
C16_OneQueryPerBlock ==
  \A i \in Indices(calls) :
    /\ calls[i].got \in {"block", "null"} =>
         /\ Len(calls[i].q) = 1
         /\ SameAccount(calls[i].q[1].address, env.ADDRESS)
         /\ calls[i].q[1].startBlock = calls[i].bn
         /\ calls[i].q[1].endBlock = calls[i].bn
    /\ calls[i].got \in {"pending", "fail"} => calls[i].q = <<>>
    /\ calls[i].int = "ok" =>
         /\ calls[i].ret = chain[calls[i].bn].ints
         /\ \A k \in 1..calls[i].ret : LiveCount("internal", calls[i].bn, k) >= 1

\* C16 witness: a query answered with records, and a query issued although
\* getBlock returned null.
C16_Witness ==
  \E i, j \in Indices(calls) :
    /\ calls[i].int = "ok" /\ calls[i].ret >= 1
    /\ calls[j].got = "null" /\ Len(calls[j].q) = 1

\* Ground truth: one of the four required values is absent or empty.
SomeValueMissing ==
  \E k \in {"WS_RPC_SEPOLIA", "HTTP_RPC_SEPOLIA", "ETHERSCAN_API_KEY"} : env[k] = ""

\* C17: when a required configuration value is missing or empty, the process
\* never leaves start-up except by exiting with status 1 after reporting the
\* configuration error; no history fetch is answered or issued, no socket is
\* opened, no block callback is registered and nothing is printed.
C17_ConfigErrorIsFatal ==
  (SomeValueMissing \/ env.ADDRESS = NoAddr) =>
    /\ pc \in {"boot", "exited"}
    /\ pc = "exited" => exitCode = 1 /\ Report("Missing .env", 0) \in reported
    /\ hist.normal = NoFetch /\ hist.internal = NoFetch
    /\ ~subscribed /\ ~wsOpen
    /\ calls = <<>> /\ emitted = <<>>

\* C17 witness: only the API key is missing and the process has exited.
C17_Witness ==
  /\ env.ETHERSCAN_API_KEY = ""
  /\ env.WS_RPC_SEPOLIA # "" /\ env.HTTP_RPC_SEPOLIA # "" /\ env.ADDRESS # NoAddr
  /\ pc = "exited" /\ exitCode = 1

\* C18: within one invocation the internal query is issued only after the body
\* fetch returned and the matching normal events were printed, so at most one
\* of its network calls is in flight; and for a block handled by a single
\* invocation every normal event is printed before every internal event.
C18_OneCallInFlight ==
  /\ \A i \in Indices(calls) :
       /\ calls[i].pc = "getBlock" => calls[i].q = <<>> /\ calls[i].int = "pending"
       /\ Len(calls[i].q) <= 1
       /\ calls[i].q # <<>> =>
            /\ calls[i].got \in {"block", "null"}
            /\ calls[i].got = "block" =>
                 \A k \in Touching(calls[i].bn) :
                   LiveCount("normal", calls[i].bn, k) >= 1
  /\ \A n \in Indices(chain) :
       Cardinality(CallsFor(n)) = 1 =>
         \A a, b \in Indices(emitted) :
           ( /\ emitted[a].src = "live" /\ emitted[a].bn = n
             /\ emitted[b].src = "live" /\ emitted[b].bn = n
             /\ emitted[a].kind = "normal" /\ emitted[b].kind = "internal" ) => a < b

\* C18 witness: a block handled once, with normal and internal events printed.
C18_Witness ==
  \E i \in Indices(calls) :
    /\ Cardinality(CallsFor(calls[i].bn)) = 1
    /\ calls[i].pc = "done" /\ calls[i].out # <<>> /\ calls[i].ret >= 1

====
